---- MODULE Spec2Model ----
(***************************************************************************)
(* State-machine model of the ideaspark user module: the identity store    *)
(* (User and UserProfile rows), UserService (create_user,                  *)
(* authenticate_user, update_user_info, change_password), the login        *)
(* endpoints and the generic routes of UserViewSet.  Every request runs on *)
(* its own worker; a worker's call is a sequence of steps, one per         *)
(* statement that reads or writes the store, so calls of different workers *)
(* interleave between their queries.                                       *)
(***************************************************************************)
EXTENDS Integers, Sequences, FiniteSets, TLC

VARIABLES
    users,      \* the users table: id -> row
    profiles,   \* the user_profiles table: user id -> row (one-to-one field)
    nextId,     \* the next id the users table assigns
    now,        \* the clock
    pc,         \* where each worker's request stands
    args,       \* the arguments of each worker's request
    local,      \* the objects each worker's request holds in memory
    result,     \* what each worker's request returned or raised
    changed,    \* history: per identity, the last successful change_password
    held,       \* the tokens the client of each worker keeps
    cache       \* the cache: key -> the value and the time it expires

vars == <<users, profiles, nextId, now, pc, args, local, result, changed, held,
         cache>>

----------------------------------------------------------------------------
(* Bounds of the model *)

\* number of rows the users table ever receives (ids 1..MaxUsers)
MaxUsers == 2

\* the clock runs from 0 to MaxTime
MaxTime == 1

\* the workers serving requests
Workers == {"w1", "w2"}

\* the single worker of the sequential specification
SeqWorkers == {"w1"}

----------------------------------------------------------------------------
(* Strings are sequences of one-character strings *)

Digits == {"0", "1", "2", "3", "4", "5", "6", "7", "8", "9"}

Empty == << >>

PhoneA == <<"1", "3", "8", "0", "0", "1", "3", "8", "0", "0", "0">>

PhoneB == <<"1", "3", "9", "0", "0", "1", "3", "9", "0", "0", "0">>

PhoneC == <<"1", "5", "0", "0", "0", "1", "5", "0", "0", "0", "0">>

\* eleven digits, but the second one is 2
BadPhone == <<"1", "2", "3", "4", "5", "6", "7", "8", "9", "0", "1">>

Alice == <<"a", "l", "i", "c", "e">>

Bob == <<"b", "o", "b">>

Nick == <<"N", "i", "c", "k">>

Mail == <<"a", "@", "x", ".", "i", "o">>

\* passwords of seven, six and five characters
Pw1 == <<"s", "e", "c", "r", "e", "t", "1">>

Pw2 == <<"h", "u", "n", "t", "e", "r">>

PwShort == <<"a", "b", "c", "d", "e">>

\* a valid phone followed by a newline
PhoneNL == Append(PhoneA, "\n")

\* last_login of an identity that never logged in (None)
NoTime == -1

----------------------------------------------------------------------------
(* Validators *)

\* mutant: the pattern accepts any digit in second place
validate_phone_AnyDigit(phone) ==
    /\ Len(phone) = 11
    /\ phone[1] = "1"
    /\ \A i \in 2..11 : phone[i] \in Digits

\* re.match(r'^1[3-9]\d{9}$', s): '$' also matches before a final newline
MatchPhonePattern(s) ==
    LET core == IF Len(s) = 12 /\ s[12] = "\n" THEN SubSeq(s, 1, 11) ELSE s
    IN  /\ Len(core) = 11
        /\ core[1] = "1"
        /\ core[2] \in {"3", "4", "5", "6", "7", "8", "9"}
        /\ \A i \in 3..11 : core[i] \in Digits

validate_phone(phone) ==
    IF phone = Empty THEN FALSE ELSE MatchPhonePattern(phone)

----------------------------------------------------------------------------
(* Password hashing (AbstractBaseUser.set_password / check_password) *)

make_password(raw) == [algo |-> "pbkdf2_sha256", raw |-> raw]

\* the password column of a row created without a password
NoPassword == [algo |-> "", raw |-> Empty]

\* mutant: any password matches a usable hash
check_password_Any(raw, encoded) == encoded.algo # ""

check_password(raw, encoded) == encoded.algo # "" /\ encoded.raw = raw

----------------------------------------------------------------------------
(* The identity store *)

Statuses == {"active", "inactive", "deleted"}

Ids == DOMAIN users

\* mutant: the username check finds no row
ExistsUsername_Never(u) == FALSE

ExistsUsername(u) == \E i \in Ids : users[i].username = u

ExistsPhone(p) == \E i \in Ids : users[i].phone = p

\* mutants: the column has no unique constraint
UniqueUsername_Off(rows, row) == TRUE

UniquePhone_Off(rows, row) == TRUE

\* User.username is unique (AbstractUser)
UniqueUsername(rows, row) ==
    \A i \in DOMAIN rows \ {row.id} : rows[i].username # row.username

\* User.phone is unique
UniquePhone(rows, row) ==
    \A i \in DOMAIN rows \ {row.id} : rows[i].phone # row.phone

\* User.phone is a varchar(11)
PhoneMaxLength == 11

\* what the database raises when row is written: None, a DataError for a
\* value too long for its column, an IntegrityError for a unique constraint
None == <<"None">>

WriteError(rows, row) ==
    IF Len(row.phone) > PhoneMaxLength THEN <<"DataError", "users.phone">>
    ELSE IF ~UniqueUsername(rows, row) THEN <<"IntegrityError", "users.username">>
    ELSE IF ~UniquePhone(rows, row) THEN <<"IntegrityError", "users.phone">>
    ELSE None

\* a new User row as the model's field defaults give it
NewUser(id, username, password, phone, email, nickname, t) ==
    [id |-> id, username |-> username, password |-> password, phone |-> phone,
     email |-> email, nickname |-> nickname, avatar |-> Empty,
     gender |-> "unknown", birthday |-> Empty, status |-> "active",
     is_active |-> TRUE, last_login |-> NoTime,
     create_time |-> t, update_time |-> t]

\* a new UserProfile row
NewProfile == [privacy_level |-> "public", preferences |-> Empty,
               email_verified |-> FALSE, phone_verified |-> FALSE]

\* Model.save() without update_fields: UPDATE of every column with auto_now,
\* or INSERT (with auto_now_add) when no row has the primary key
SavedRow(rows, obj, t) ==
    IF obj.id \in DOMAIN rows
    THEN [obj EXCEPT !.update_time = t]
    ELSE [obj EXCEPT !.update_time = t, !.create_time = t]

Put(rows, row) == (row.id :> row) @@ rows

Remove(f, id) == [i \in DOMAIN f \ {id} |-> f[i]]

----------------------------------------------------------------------------
(* Results of a call *)

Idle == [op |-> "none"]

NoLocal == [none |-> TRUE]

NoResult == [kind |-> "none"]

\* no token: the request carries none
NoToken == [token_type |-> "none"]

\* the client has no tokens; used: a refresh operation accepted the refresh
\* token the client keeps
NoTokens == [access |-> NoToken, refresh |-> NoToken, used |-> FALSE]

\* no change_password has succeeded for the identity
NoChange == [old |-> Empty, new |-> Empty]

ValidationError(msg) == [kind |-> "ValidationError", msg |-> msg]

Returned(id) == [kind |-> "User", id |-> id]

\* the exception leaves the service uncaught
Raised(exc, msg) == [kind |-> exc, msg |-> msg]

Finish(w, r) ==
    /\ pc' = [pc EXCEPT ![w] = "done"]
    /\ result' = [result EXCEPT ![w] = r]

Goto(w, label) ==
    /\ pc' = [pc EXCEPT ![w] = label]
    /\ UNCHANGED result

----------------------------------------------------------------------------
(* UserService.create_user *)

\* not user_data.get(field)
Falsy(d, field) == field \notin DOMAIN d \/ d[field] = Empty

\* user_data.get(field, default)
GetOr(d, field, default) == IF field \in DOMAIN d THEN d[field] ELSE default

required_fields == <<"username", "password", "phone">>

\* the first required field that is missing or empty, 0 when none is
FirstMissing(d) ==
    IF \E k \in 1..Len(required_fields) : Falsy(d, required_fields[k])
    THEN CHOOSE k \in 1..Len(required_fields) :
            /\ Falsy(d, required_fields[k])
            /\ \A j \in 1..(k - 1) : ~Falsy(d, required_fields[j])
    ELSE 0

\* the data of create_user calls: complete and valid data, data with one
\* required key empty, absent or malformed, and data with the optional keys
ValidData ==
    {[username |-> u, password |-> Pw1, phone |-> ph] :
        u \in {Alice, Bob, PhoneA}, ph \in {PhoneA, PhoneB}}

DefectiveData ==
    {[username |-> Empty, password |-> Pw1, phone |-> PhoneA],
     [username |-> Alice, password |-> Empty, phone |-> PhoneA],
     [username |-> Alice, password |-> Pw1, phone |-> Empty],
     [username |-> Alice, password |-> Pw1, phone |-> BadPhone],
     [username |-> Empty, password |-> Pw1, phone |-> BadPhone],
     [username |-> Alice, password |-> Pw1, phone |-> PhoneNL],
     [username |-> Alice, password |-> Pw1],
     [username |-> Alice, phone |-> PhoneA],
     [password |-> Pw1, phone |-> PhoneA]}

OptionalData ==
    {[username |-> Bob, password |-> Pw2, phone |-> PhoneB, nickname |-> Nick],
     [username |-> Bob, password |-> Pw2, phone |-> PhoneB, nickname |-> Empty],
     [username |-> Bob, password |-> Pw2, phone |-> PhoneB, email |-> Mail]}

\* lines 51-59: the checks on the data alone
CreateUserCall(w, d) ==
    /\ pc[w] = "idle"
    /\ args' = [args EXCEPT ![w] = [op |-> "create_user", user_data |-> d]]
    /\ IF FirstMissing(d) # 0
       THEN Finish(w, ValidationError(<<"required", required_fields[FirstMissing(d)]>>))
       ELSE IF ~validate_phone(d.phone)
       THEN Finish(w, ValidationError(<<"phone_format">>))
       ELSE Goto(w, "cu_username")
    /\ UNCHANGED <<users, profiles, nextId, now, local, changed, held, cache>>

\* lines 61-63: User.objects.filter(username=...).exists()
CreateUserCheckUsername(w) ==
    /\ pc[w] = "cu_username"
    /\ IF ExistsUsername(args[w].user_data.username)
       THEN Finish(w, ValidationError(<<"username_exists">>))
       ELSE Goto(w, "cu_phone")
    /\ UNCHANGED <<users, profiles, nextId, now, args, local, changed, held, cache>>

\* lines 65-67: User.objects.filter(phone=...).exists()
CreateUserCheckPhone(w) ==
    /\ pc[w] = "cu_phone"
    /\ IF ExistsPhone(args[w].user_data.phone)
       THEN Finish(w, ValidationError(<<"phone_registered">>))
       ELSE Goto(w, "cu_insert")
    /\ UNCHANGED <<users, profiles, nextId, now, args, local, changed, held, cache>>

\* the row User.objects.create_user(...) inserts
CreatedUser(d, id, t) ==
    NewUser(id, d.username, make_password(d.password), d.phone,
            GetOr(d, "email", Empty), GetOr(d, "nickname", d.username), t)

\* the store after the atomic block failed: transaction.atomic() rolls back
RolledBack(rows, row) == rows

\* lines 69-88: the atomic block.  The INSERT of the user fails on a unique
\* constraint, or the INSERT of the profile fails (profile_fails), or both rows
\* are committed; every exception becomes a ValidationError.
CreateUserInsert(w, profile_fails) ==
    /\ pc[w] = "cu_insert"
    /\ nextId <= MaxUsers
    /\ LET row == CreatedUser(args[w].user_data, nextId, now)
           err == WriteError(users, row)
       IN  IF err # None
           THEN /\ Finish(w, ValidationError(<<"create_failed">> \o err))
                /\ UNCHANGED <<users, profiles, nextId>>
           ELSE IF profile_fails
           THEN /\ Finish(w, ValidationError(<<"create_failed", "DatabaseError", "user_profiles">>))
                /\ users' = RolledBack(users, row)
                /\ UNCHANGED <<profiles, nextId>>
           ELSE /\ Finish(w, Returned(row.id))
                /\ users' = Put(users, row)
                /\ profiles' = (row.id :> NewProfile) @@ profiles
                /\ nextId' = nextId + 1
    /\ UNCHANGED <<now, args, local, changed, held, cache>>

----------------------------------------------------------------------------
(* UserService.update_user_info *)

\* mutant: status is in the allow-list
allowed_fields_WithStatus ==
    {"nickname", "phone", "email", "avatar", "gender", "birthday", "status"}

allowed_fields == {"nickname", "phone", "email", "avatar", "gender", "birthday"}

\* lines 166-170: setattr for the keys of the patch that are allowed
Setattrs(user, update_data) ==
    [f \in DOMAIN user |->
        IF f \in allowed_fields /\ f \in DOMAIN update_data
        THEN update_data[f] ELSE user[f]]

Avatar == <<"h", "t", "t", "p">>

Birthday == <<"2", "0", "0", "0">>

\* patches: allowed keys, keys outside the allow-list, both, none
UpdateData ==
    {[nickname |-> Nick],
     [phone |-> PhoneA],
     [phone |-> PhoneB],
     [phone |-> BadPhone],
     [email |-> Mail, avatar |-> Avatar, gender |-> "male", birthday |-> Birthday],
     [username |-> Bob, password |-> Pw2, status |-> "deleted", id |-> 2,
      create_time |-> 1, is_active |-> FALSE],
     [username |-> Alice, status |-> "inactive", nickname |-> Empty],
     << >>}

\* lines 153-160: get_user_by_id and the format check of the patch's phone
UpdateUserInfoCall(w, user_id, update_data) ==
    /\ pc[w] = "idle"
    /\ args' = [args EXCEPT ![w] = [op |-> "update_user_info", user_id |-> user_id,
                                    update_data |-> update_data]]
    /\ IF user_id \notin Ids
       THEN /\ Finish(w, ValidationError(<<"user_not_found">>))
            /\ UNCHANGED local
       ELSE /\ local' = [local EXCEPT ![w] = [user |-> users[user_id]]]
            /\ IF "phone" \in DOMAIN update_data
               THEN IF ~validate_phone(update_data.phone)
                    THEN Finish(w, ValidationError(<<"phone_format">>))
                    ELSE Goto(w, "uu_phone")
               ELSE Goto(w, "uu_save")
    /\ UNCHANGED <<users, profiles, nextId, now, changed, held, cache>>

\* lines 162-164: User.objects.exclude(id=user_id).filter(phone=...).exists()
UpdateUserInfoCheckPhone(w) ==
    /\ pc[w] = "uu_phone"
    /\ IF \E i \in Ids \ {args[w].user_id} : users[i].phone = args[w].update_data.phone
       THEN Finish(w, ValidationError(<<"phone_in_use">>))
       ELSE Goto(w, "uu_save")
    /\ UNCHANGED <<users, profiles, nextId, now, args, local, changed, held, cache>>

\* lines 166-174: the setattr loop and user.save()
UpdateUserInfoSave(w) ==
    /\ pc[w] = "uu_save"
    /\ LET row == SavedRow(users, Setattrs(local[w].user, args[w].update_data), now)
           err == WriteError(users, row)
       IN  IF err # None
           THEN /\ Finish(w, Raised(err[1], err[2]))
                /\ UNCHANGED users
           ELSE /\ Finish(w, Returned(row.id))
                /\ users' = Put(users, row)
    /\ UNCHANGED <<profiles, nextId, now, args, local, changed, held, cache>>

----------------------------------------------------------------------------
(* UserService.change_password *)

\* line 220: the least length of a new password
MinNewPasswordLen == 6

\* lines 211-223: get_user_by_id, check_password, the length check, set_password
ChangePasswordCall(w, user_id, old_password, new_password) ==
    /\ pc[w] = "idle"
    /\ args' = [args EXCEPT ![w] = [op |-> "change_password", user_id |-> user_id,
                                    old_password |-> old_password,
                                    new_password |-> new_password]]
    /\ IF user_id \notin Ids
       THEN /\ Finish(w, ValidationError(<<"user_not_found">>))
            /\ UNCHANGED local
       ELSE IF ~check_password(old_password, users[user_id].password)
       THEN /\ Finish(w, ValidationError(<<"old_password_wrong">>))
            /\ UNCHANGED local
       ELSE IF Len(new_password) < MinNewPasswordLen
       THEN /\ Finish(w, ValidationError(<<"new_password_short">>))
            /\ UNCHANGED local
       ELSE /\ local' = [local EXCEPT ![w] =
                  [user |-> [users[user_id] EXCEPT
                                !.password = make_password(new_password)]]]
            /\ Goto(w, "cp_save")
    /\ UNCHANGED <<users, profiles, nextId, now, changed, held, cache>>

\* lines 224-227: user.save()
ChangePasswordSave(w) ==
    /\ pc[w] = "cp_save"
    /\ LET row == SavedRow(users, local[w].user, now)
           err == WriteError(users, row)
       IN  IF err # None
           THEN /\ Finish(w, Raised(err[1], err[2]))
                /\ UNCHANGED <<users, changed>>
           ELSE /\ Finish(w, [kind |-> "True"])
                /\ users' = Put(users, row)
                /\ changed' = [changed EXCEPT ![row.id] =
                                  [old |-> args[w].old_password,
                                   new |-> args[w].new_password]]
    /\ UNCHANGED <<profiles, nextId, now, args, local, held, cache>>

----------------------------------------------------------------------------
(* UserService.authenticate_user *)

\* mutant: the status is not looked at
is_user_active_Always(user) == TRUE

\* User.is_user_active
is_user_active(user) == user.status = "active"

\* the id of the row with this phone / username / email, as a set
ByPhone(p) == {i \in Ids : users[i].phone = p}

ByUsername(u) == {i \in Ids : users[i].username = u}

ByEmail(e) == {i \in Ids : users[i].email = e}

\* lines 102-110: an identifier of phone form is replaced by the username of
\* the row that owns the phone
ResolveUsername(username) ==
    IF validate_phone(username) /\ ByPhone(username) # {}
    THEN users[CHOOSE i \in ByPhone(username) : TRUE].username
    ELSE username

\* django.contrib.auth.authenticate (ModelBackend): the row of this username
\* when the password matches and is_active is set, as a set
Authenticate(username, password) ==
    {i \in ByUsername(username) :
        check_password(password, users[i].password) /\ users[i].is_active}

AuthenticateUserCall(w, username, password) ==
    /\ pc[w] = "idle"
    /\ args' = [args EXCEPT ![w] = [op |-> "authenticate_user",
                                    username |-> username, password |-> password]]
    /\ local' = [local EXCEPT ![w] = [username |-> ResolveUsername(username)]]
    /\ Goto(w, "au_authenticate")
    /\ UNCHANGED <<users, profiles, nextId, now, changed, held, cache>>

\* lines 112-113 and 120
AuthenticateUserBackend(w) ==
    /\ pc[w] = "au_authenticate"
    /\ LET found == Authenticate(local[w].username, args[w].password)
       IN  IF found # {} /\ is_user_active(users[CHOOSE i \in found : TRUE])
           THEN /\ local' = [local EXCEPT ![w] = [user |-> users[CHOOSE i \in found : TRUE]]]
                /\ Goto(w, "au_save")
           ELSE /\ Finish(w, [kind |-> "None"])
                /\ UNCHANGED local
    /\ UNCHANGED <<users, profiles, nextId, now, args, changed, held, cache>>

\* lines 114-118: user.save(update_fields=['last_login'])
AuthenticateUserSave(w) ==
    /\ pc[w] = "au_save"
    /\ LET id == local[w].user.id
       IN  IF id \in Ids
           THEN /\ users' = [users EXCEPT ![id].last_login = now]
                /\ Finish(w, Returned(id))
           ELSE /\ UNCHANGED users
                /\ Finish(w, Raised("DatabaseError", "no rows affected"))
    /\ UNCHANGED <<profiles, nextId, now, args, local, changed, held, cache>>

----------------------------------------------------------------------------
(* Tokens and the login endpoints *)

Response(status, body) == [kind |-> "Response", status |-> status, body |-> body]

\* SIMPLE_JWT: the lifetimes of the tokens, in minutes (60 minutes, 7 days)
ACCESS_TOKEN_LIFETIME == 60

REFRESH_TOKEN_LIFETIME == 10080

\* mutant: the password column is a field of UserSerializer
UserSerializerFields_WithPassword ==
    {"id", "username", "phone", "email", "nickname", "avatar", "gender",
     "birthday", "status", "last_login", "create_time", "password"}

\* UserSerializer.Meta.fields
UserSerializerFields ==
    {"id", "username", "phone", "email", "nickname", "avatar", "gender",
     "birthday", "status", "last_login", "create_time"}

\* UserSerializer(user).data
UserSerializerData(user) == [f \in UserSerializerFields |-> user[f]]

\* RefreshToken.for_user(user): the claims are the user id alone
ForUser(user, t) ==
    [token_type |-> "refresh", iat |-> t, exp |-> t + REFRESH_TOKEN_LIFETIME,
     claims |-> [user_id |-> user.id]]

\* CustomTokenObtainPairSerializer.get_token: for_user plus the custom claims
GetToken(user, t) ==
    [token_type |-> "refresh", iat |-> t, exp |-> t + REFRESH_TOKEN_LIFETIME,
     claims |-> [user_id |-> user.id, username |-> user.username,
                 nickname |-> user.nickname, phone |-> user.phone,
                 email |-> user.email]]

\* RefreshToken.access_token, read at time t: the claims of the refresh token
\* are copied, the type and the expiry are the access token's own
AccessToken(refresh, t) ==
    [refresh EXCEPT !.token_type = "access", !.exp = t + ACCESS_TOKEN_LIFETIME]

\* the token pair of a login at the time the refresh token was made
TokenPair(refresh) ==
    [access |-> AccessToken(refresh, refresh.iat), refresh |-> refresh]

Contains(s, ch) == \E i \in 1..Len(s) : s[i] = ch

\* UserLoginSerializer.validate, lines 183-193: the rows of this e-mail (when
\* the identifier has an '@') or of this username
LoginPrimary(username) ==
    IF Contains(username, "@") THEN ByEmail(username) ELSE ByUsername(username)

\* lines 189-193: no such row, so the row of this phone
LoginLookup(username) ==
    IF LoginPrimary(username) # {} THEN LoginPrimary(username) ELSE ByPhone(username)

\* UserViewSet.login with UserLoginSerializer
ViewsetLogin(w, username, password) ==
    /\ pc[w] = "idle"
    /\ args' = [args EXCEPT ![w] = [op |-> "login", username |-> username,
                                    password |-> password]]
    /\ LET found == LoginLookup(username)
           user == users[CHOOSE i \in found : TRUE]
       IN  IF username = Empty \/ password = Empty
           THEN Finish(w, Response(400, [error |-> "blank"]))
           ELSE IF Cardinality(LoginPrimary(username)) > 1
           THEN Finish(w, Raised("MultipleObjectsReturned", "get"))
           ELSE IF found = {}
           THEN Finish(w, Response(400, [error |-> "user_not_found"]))
           ELSE IF ~check_password(password, user.password)
           THEN Finish(w, Response(400, [error |-> "password_wrong"]))
           ELSE IF ~user.is_active
           THEN Finish(w, Response(400, [error |-> "disabled"]))
           ELSE Finish(w, [kind |-> "Response", status |-> 200, user |-> user.id,
                           body |-> TokenPair(ForUser(user, now)) @@
                                    [user |-> UserSerializerData(user),
                                     token_type |-> "Bearer",
                                     expires_in |-> 3600]])
    /\ UNCHANGED <<users, profiles, nextId, now, local, changed, held, cache>>

\* CustomTokenObtainPairView.post with CustomTokenObtainPairSerializer:
\* authenticate(), the tokens of get_token and, as UPDATE_LAST_LOGIN is set,
\* the write of last_login
TokenObtain(w, username, password) ==
    /\ pc[w] = "idle"
    /\ args' = [args EXCEPT ![w] = [op |-> "token_obtain", username |-> username,
                                    password |-> password]]
    /\ LET found == Authenticate(username, password)
           user == users[CHOOSE i \in found : TRUE]
       IN  IF username = Empty \/ password = Empty
           THEN /\ Finish(w, Response(400, [error |-> "blank"]))
                /\ UNCHANGED users
           ELSE IF found = {}
           THEN /\ Finish(w, Response(400, [error |-> "no_active_account"]))
                /\ UNCHANGED users
           ELSE /\ Finish(w, [kind |-> "Response", status |-> 200, user |-> user.id,
                              body |-> TokenPair(GetToken(user, now)) @@
                                       [user |-> UserSerializerData(
                                                    [user EXCEPT !.last_login = now])]])
                /\ users' = [users EXCEPT ![user.id].last_login = now]
    /\ UNCHANGED <<profiles, nextId, now, local, changed, held, cache>>

----------------------------------------------------------------------------
(* Verification and refresh of tokens *)

\* a string that is no JWT
Garbage == [token_type |-> "garbage"]

\* a token whose payload was written by the client: the signature does not
\* match
Forged(token) == [forged |-> TRUE] @@ token

\* mutant: a token is expired only after its expiry timestamp
TokenError_Late(raw, type, t) ==
    IF raw.token_type \notin {"access", "refresh"} \/ "forged" \in DOMAIN raw
    THEN "invalid"
    ELSE IF raw.exp < t THEN "expired"
    ELSE IF type # "untyped" /\ raw.token_type # type THEN "wrong_type"
    ELSE "ok"

\* mutant: the type of the token is not checked
TokenError_AnyType(raw, type, t) ==
    IF raw.token_type \notin {"access", "refresh"} \/ "forged" \in DOMAIN raw
    THEN "invalid"
    ELSE IF raw.exp <= t THEN "expired"
    ELSE "ok"

\* Token.__init__ with verify=True at time t, for the token class type: the
\* decoding with the check of the signature, check_exp (claim_time <=
\* current_time is expired) and verify_token_type
TokenError(raw, type, t) ==
    IF raw.token_type \notin {"access", "refresh"} \/ "forged" \in DOMAIN raw
    THEN "invalid"
    ELSE IF raw.exp <= t THEN "expired"
    ELSE IF type # "untyped" /\ raw.token_type # type THEN "wrong_type"
    ELSE "ok"

\* the ghost of held: w's client has had its refresh token accepted
MarkUsed(w, raw) ==
    held' = [held EXCEPT ![w].used = @ \/ raw = held[w].refresh]

\* GET users/verify_token/ with the token in the Authorization header:
\* JWTAuthentication (AUTH_TOKEN_CLASSES is AccessToken) answers 401 for a
\* token it refuses, for a user it does not find and for one that is not
\* is_active; without a header the request is anonymous
VerifyToken(w, raw) ==
    /\ pc[w] = "idle"
    /\ args' = [args EXCEPT ![w] = [op |-> "verify_token", token |-> raw]]
    /\ IF raw = NoToken
       THEN Finish(w, Response(401, [valid |-> FALSE, error |-> "anonymous"]))
       ELSE IF TokenError(raw, "access", now) # "ok"
       THEN Finish(w, Response(401, [detail |-> "token_not_valid"]))
       ELSE IF raw.claims.user_id \notin Ids
       THEN Finish(w, Response(401, [detail |-> "user_not_found"]))
       ELSE IF ~users[raw.claims.user_id].is_active
       THEN Finish(w, Response(401, [detail |-> "user_inactive"]))
       ELSE Finish(w, [kind |-> "Response", status |-> 200,
                       user |-> raw.claims.user_id,
                       body |-> [valid |-> TRUE,
                                 user |-> UserSerializerData(users[raw.claims.user_id])]])
    /\ UNCHANGED <<users, profiles, nextId, now, local, changed, held, cache>>

\* POST users/refresh_token/ (UserViewSet.refresh_token)
RefreshTokenAction(w, raw) ==
    /\ pc[w] = "idle"
    /\ args' = [args EXCEPT ![w] = [op |-> "refresh_token", token |-> raw]]
    /\ IF raw = NoToken
       THEN /\ Finish(w, Response(400, [error |-> "refresh_empty"]))
            /\ UNCHANGED held
       ELSE IF TokenError(raw, "refresh", now) # "ok"
       THEN /\ Finish(w, Response(401, [error |-> "token_invalid_or_expired"]))
            /\ UNCHANGED held
       ELSE /\ Finish(w, [kind |-> "Response", status |-> 200,
                          user |-> raw.claims.user_id,
                          body |-> [access |-> AccessToken(raw, now),
                                    token_type |-> "Bearer",
                                    expires_in |-> 3600]])
            /\ MarkUsed(w, raw)
    /\ UNCHANGED <<users, profiles, nextId, now, local, changed, cache>>

\* TokenRefreshSerializer with ROTATE_REFRESH_TOKENS: the same claims with a
\* new iat and exp
Rotated(refresh, t) ==
    [refresh EXCEPT !.iat = t, !.exp = t + REFRESH_TOKEN_LIFETIME]

\* POST auth/refresh/ (TokenRefreshView): the token_blacklist application is
\* not installed, so RefreshToken has no blacklist to check or to write
TokenRefresh(w, raw) ==
    /\ pc[w] = "idle"
    /\ args' = [args EXCEPT ![w] = [op |-> "token_refresh", token |-> raw]]
    /\ IF raw = NoToken
       THEN /\ Finish(w, Response(400, [detail |-> "refresh_required"]))
            /\ UNCHANGED held
       ELSE IF TokenError(raw, "refresh", now) # "ok"
       THEN /\ Finish(w, Response(401, [detail |-> "token_not_valid"]))
            /\ UNCHANGED held
       ELSE /\ Finish(w, [kind |-> "Response", status |-> 200,
                          user |-> raw.claims.user_id,
                          body |-> [access |-> AccessToken(raw, now),
                                    refresh |-> Rotated(raw, now)]])
            /\ MarkUsed(w, raw)
    /\ UNCHANGED <<users, profiles, nextId, now, local, changed, cache>>

\* mutant: the Authorization header is never refused
JWTAuthenticationFails_Never(raw) == FALSE

\* JWTAuthentication.authenticate, the first of DEFAULT_AUTHENTICATION_CLASSES,
\* runs before every view: a request whose Authorization header carries a
\* token is refused with 401 when the token is no valid access token, when
\* its user is not found and when its user is not is_active
JWTAuthenticationFails(raw) ==
    /\ raw # NoToken
    /\ \/ TokenError(raw, "access", now) # "ok"
       \/ raw.claims.user_id \notin Ids
       \/ ~users[raw.claims.user_id].is_active

\* POST users/logout/ (UserViewSet.logout) with the token raw in the
\* Authorization header: the body of the view is pass
Logout(w, raw) ==
    /\ pc[w] = "idle"
    /\ args' = [args EXCEPT ![w] = [op |-> "logout", token |-> raw]]
    /\ IF JWTAuthenticationFails(raw)
       THEN Finish(w, Response(401, [detail |-> "token_not_valid"]))
       ELSE Finish(w, Response(200, [message |-> "logout_ok"]))
    /\ UNCHANGED <<users, profiles, nextId, now, local, changed, held, cache>>

\* the client keeps the tokens of the response it received
Keep(w) ==
    /\ pc[w] = "done"
    /\ result[w].kind = "Response"
    /\ result[w].status = 200
    /\ "access" \in DOMAIN result[w].body
    /\ held' = [held EXCEPT ![w] =
                  IF "refresh" \in DOMAIN result[w].body
                  THEN [access |-> result[w].body.access,
                        refresh |-> result[w].body.refresh, used |-> FALSE]
                  ELSE [@ EXCEPT !.access = result[w].body.access]]
    /\ pc' = [pc EXCEPT ![w] = "idle"]
    /\ args' = [args EXCEPT ![w] = Idle]
    /\ local' = [local EXCEPT ![w] = NoLocal]
    /\ result' = [result EXCEPT ![w] = NoResult]
    /\ UNCHANGED <<users, profiles, nextId, now, changed, cache>>

\* the tokens a client can send: the ones it keeps, a forgery of its access
\* token, a string that is no token, none
TokenChoices(w) ==
    {held[w].access, held[w].refresh, Forged(held[w].access), Garbage, NoToken}

----------------------------------------------------------------------------
(* The register, update_info and retrieve endpoints *)

Whitespace == {" ", "\n"}

\* str.strip(), which CharField applies to its input (trim_whitespace)
RECURSIVE Trim(_)
Trim(s) ==
    IF s = Empty THEN s
    ELSE IF s[1] \in Whitespace THEN Trim(Tail(s))
    ELSE IF s[Len(s)] \in Whitespace THEN Trim(SubSeq(s, 1, Len(s) - 1))
    ELSE s

\* utils.validate_phone_number: the pattern on phone.strip()
validate_phone_number(phone) ==
    IF phone = Empty THEN FALSE ELSE MatchPhonePattern(Trim(phone))

\* min_length of password and password_confirm in UserCreateSerializer
PasswordMinLength == 6

\* the fields UserCreateSerializer requires
CreateRequired == {"username", "password", "password_confirm", "phone"}

\* the data of the request after the fields have trimmed their input
Trimmed(data) == [f \in DOMAIN data |-> Trim(data[f])]

\* UserCreateSerializer.is_valid(): the errors of the fields (required, length,
\* validate_phone, the unique validators of username and phone), then validate
CreateSerializerErrors(data) ==
    LET d == Trimmed(data)
    IN  IF \E f \in CreateRequired : f \notin DOMAIN d \/ d[f] = Empty
        THEN <<"required">>
        ELSE IF Len(d.password) < PasswordMinLength
                \/ Len(d.password_confirm) < PasswordMinLength
        THEN <<"min_length">>
        ELSE IF Len(d.phone) > PhoneMaxLength THEN <<"max_length">>
        ELSE IF ~validate_phone_number(d.phone) THEN <<"phone_format">>
        ELSE IF ExistsUsername(d.username) \/ ExistsPhone(d.phone)
        THEN <<"unique">>
        ELSE IF d.password # d.password_confirm THEN <<"password_mismatch">>
        ELSE << >>

\* UserCreateSerializer.create: validated_data without password_confirm
ValidatedData(data) ==
    [f \in DOMAIN data \ {"password_confirm"} |-> Trim(data[f])]

\* POST users/register/: is_valid(), then serializer.save() enters
\* UserService.create_user, whose steps follow (lines 51-59 are taken here)
RegisterCall(w, data) ==
    /\ pc[w] = "idle"
    /\ IF CreateSerializerErrors(data) # << >>
       THEN /\ args' = [args EXCEPT ![w] = [op |-> "register", data |-> data]]
            /\ Finish(w, Response(400, [errors |-> CreateSerializerErrors(data)]))
       ELSE /\ args' = [args EXCEPT ![w] = [op |-> "register", data |-> data,
                                           user_data |-> ValidatedData(data)]]
            /\ IF FirstMissing(ValidatedData(data)) # 0
               THEN Finish(w, ValidationError(<<"required">>))
               ELSE IF ~validate_phone(ValidatedData(data).phone)
               THEN Finish(w, ValidationError(<<"phone_format">>))
               ELSE Goto(w, "cu_username")
    /\ UNCHANGED <<users, profiles, nextId, now, local, changed, held, cache>>

\* the response of the register view for what serializer.save() returned or
\* raised: 201 for the user; the ValidationError of django.core.exceptions is
\* no APIException, it leaves the view and the server answers 500
RegisterResponse(r) ==
    IF r.kind = "Response" THEN r
    ELSE IF r.kind = "User"
    THEN [kind |-> "Response", status |-> 201, user |-> r.id,
          body |-> [message |-> "registered", user_id |-> r.id,
                    username |-> users[r.id].username]]
    ELSE Response(500, [exception |-> r.kind])

\* the status of that response
RegisterStatus(r) ==
    IF r.kind = "Response" THEN r.status ELSE IF r.kind = "User" THEN 201 ELSE 500

\* the response w's request ends with
ResponseOf(w) ==
    IF args[w].op = "register" THEN RegisterResponse(result[w]) ELSE result[w]

\* UserUpdateSerializer.Meta.fields
UpdateSerializerFields ==
    {"nickname", "phone", "email", "avatar", "gender", "birthday"}

\* PATCH users/<id>/update_info/ with UserUpdateSerializer (partial): the
\* queries and the save of one request, taken in one step
UpdateInfo(w, id, data) ==
    /\ pc[w] = "idle"
    /\ args' = [args EXCEPT ![w] = [op |-> "update_info", user_id |-> id, data |-> data]]
    /\ LET d == Trimmed(data)
           obj == IF id \in Ids
                  THEN [f \in DOMAIN users[id] |->
                           IF f \in UpdateSerializerFields /\ f \in DOMAIN d
                           THEN d[f] ELSE users[id][f]]
                  ELSE NoLocal
       IN  IF id \notin Ids
           THEN /\ Finish(w, Response(404, [detail |-> "not_found"]))
                /\ UNCHANGED users
           ELSE IF /\ "phone" \in DOMAIN d
                   /\ \/ d.phone = Empty
                      \/ Len(d.phone) > PhoneMaxLength
                      \/ ~validate_phone_number(d.phone)
                      \/ \E i \in Ids \ {id} : users[i].phone = d.phone
           THEN /\ Finish(w, Response(400, [phone |-> "invalid"]))
                /\ UNCHANGED users
           ELSE /\ Finish(w, [kind |-> "Response", status |-> 200, user |-> id,
                              body |-> [message |-> "updated",
                                        user |-> [f \in UpdateSerializerFields |-> obj[f]]]])
                /\ users' = Put(users, SavedRow(users, obj, now))
    /\ UNCHANGED <<profiles, nextId, now, local, changed, held, cache>>

\* GET users/<id>/ with UserSerializer
Retrieve(w, id) ==
    /\ pc[w] = "idle"
    /\ args' = [args EXCEPT ![w] = [op |-> "retrieve", user_id |-> id]]
    /\ IF id \in Ids
       THEN Finish(w, [kind |-> "Response", status |-> 200, user |-> id,
                       body |-> UserSerializerData(users[id])])
       ELSE Finish(w, Response(404, [detail |-> "not_found"]))
    /\ UNCHANGED <<users, profiles, nextId, now, local, changed, held, cache>>

\* User.get_full_info
get_full_info(user) ==
    [f \in {"id", "username", "nickname", "phone", "email", "avatar", "gender",
            "birthday", "status", "create_time", "last_login"} |-> user[f]]

----------------------------------------------------------------------------
(* The generic routes of UserViewSet (ModelViewSet with UserSerializer) *)

\* the writable fields of UserSerializer
serializer_fields == {"username", "phone", "email", "nickname", "avatar",
                      "gender", "birthday", "status"}

\* POST users/: UserSerializer.create is User.objects.create(**validated_data);
\* the serializer's unique validators answer 400
GenericCreate(data) ==
    /\ nextId <= MaxUsers
    /\ LET base == NewUser(nextId, data.username, NoPassword, data.phone,
                           Empty, Empty, now)
           row == [f \in DOMAIN base |->
                      IF f \in serializer_fields /\ f \in DOMAIN data
                      THEN data[f] ELSE base[f]]
       IN  /\ WriteError(users, row) = None
           /\ users' = Put(users, row)
           /\ nextId' = nextId + 1
    /\ UNCHANGED <<profiles, now, pc, args, local, result, changed, held, cache>>

\* PATCH users/<id>/: the fields of the request are set and the row is saved
GenericUpdate(id, data) ==
    /\ id \in Ids
    /\ LET obj == [f \in DOMAIN users[id] |->
                      IF f \in serializer_fields /\ f \in DOMAIN data
                      THEN data[f] ELSE users[id][f]]
           row == SavedRow(users, obj, now)
       IN  /\ WriteError(users, row) = None
           /\ users' = Put(users, row)
    /\ UNCHANGED <<profiles, nextId, now, pc, args, local, result, changed, held, cache>>

\* DELETE users/<id>/: the profile goes with the user (on_delete=CASCADE)
GenericDestroy(id) ==
    /\ id \in Ids
    /\ users' = Remove(users, id)
    /\ profiles' = Remove(profiles, id)
    /\ UNCHANGED <<nextId, now, pc, args, local, result, changed, held, cache>>

----------------------------------------------------------------------------
(* Time *)

\* the instants the clock moves to while tokens age: around the expiry of an
\* access token issued at 0, and of a refresh token issued at 0
AccessInstants ==
    {ACCESS_TOKEN_LIFETIME - 1, ACCESS_TOKEN_LIFETIME, ACCESS_TOKEN_LIFETIME + 1}

RefreshInstants ==
    {ACCESS_TOKEN_LIFETIME, REFRESH_TOKEN_LIFETIME, REFRESH_TOKEN_LIFETIME + 1}

\* time passes until a later instant
Elapse(t) ==
    /\ now < t
    /\ now' = t
    /\ UNCHANGED <<users, profiles, nextId, pc, args, local, result, changed, held, cache>>

Tick ==
    /\ now < MaxTime
    /\ now' = now + 1
    /\ UNCHANGED <<users, profiles, nextId, pc, args, local, result, changed, held, cache>>

----------------------------------------------------------------------------
(* The end of a request *)

Return(w) ==
    /\ pc[w] = "done"
    /\ pc' = [pc EXCEPT ![w] = "idle"]
    /\ args' = [args EXCEPT ![w] = Idle]
    /\ local' = [local EXCEPT ![w] = NoLocal]
    /\ result' = [result EXCEPT ![w] = NoResult]
    /\ UNCHANGED <<users, profiles, nextId, now, changed, held, cache>>

----------------------------------------------------------------------------
(* Specifications *)

Init ==
    /\ users = << >>
    /\ profiles = << >>
    /\ nextId = 1
    /\ now = 0
    /\ pc = [w \in Workers |-> "idle"]
    /\ args = [w \in Workers |-> Idle]
    /\ local = [w \in Workers |-> NoLocal]
    /\ result = [w \in Workers |-> NoResult]
    /\ changed = [i \in 1..MaxUsers |-> NoChange]
    /\ held = [w \in Workers |-> NoTokens]
    /\ cache = << >>

\* create_user with the data d draws from
CreateUserStep(w, data) ==
    \/ \E d \in data : CreateUserCall(w, d)
    \/ CreateUserCheckUsername(w)
    \/ CreateUserCheckPhone(w)
    \/ \E f \in BOOLEAN : CreateUserInsert(w, f)

\* workers that only create users, every step of one interleaved with the
\* steps of the other
NextCreate ==
    \E w \in Workers : CreateUserStep(w, ValidData \cup DefectiveData) \/ Return(w)

SpecCreate == Init /\ [][NextCreate]_vars

UpdateUserInfoStep(w, data) ==
    \/ \E id \in 1..MaxUsers, d \in data : UpdateUserInfoCall(w, id, d)
    \/ UpdateUserInfoCheckPhone(w)
    \/ UpdateUserInfoSave(w)

\* the data of the racing create_user calls: two usernames, two phones
RaceData ==
    {[username |-> u, password |-> Pw1, phone |-> ph] :
        u \in {Alice, Bob}, ph \in {PhoneA, PhoneB}}

\* the writers of usernames and phones, interleaved
Next ==
    \/ \E w \in Workers :
          \/ CreateUserStep(w, RaceData)
          \/ UpdateUserInfoStep(w, {[phone |-> PhoneA], [phone |-> PhoneB]})
          \/ Return(w)
    \/ GenericCreate([username |-> Bob, phone |-> PhoneB])
    \/ \E id \in 1..MaxUsers : GenericDestroy(id)

Spec == Init /\ [][Next]_vars

ChangePasswordStep(w) ==
    \/ \E id \in 1..MaxUsers, old \in {Pw1, Pw2}, new \in {Pw1, Pw2, PwShort} :
          ChangePasswordCall(w, id, old, new)
    \/ ChangePasswordSave(w)

Identifiers == {Alice, PhoneA, PhoneB}

AuthenticateUserStep(w) ==
    \/ \E u \in Identifiers, p \in {Pw1, Pw2} : AuthenticateUserCall(w, u, p)
    \/ AuthenticateUserBackend(w)
    \/ AuthenticateUserSave(w)

LoginStep(w) ==
    \/ \E u \in Identifiers \cup {Empty}, p \in {Pw1, Pw2} : ViewsetLogin(w, u, p)
    \/ \E u \in Identifiers \cup {Empty}, p \in {Pw1, Pw2} : TokenObtain(w, u, p)

\* two identities, one of them named like the phone of the other
SeqData ==
    {[username |-> PhoneA, password |-> Pw1, phone |-> PhoneB],
     [username |-> Alice, password |-> Pw1, phone |-> PhoneA]}

\* no request is being served
Quiet == \A w \in Workers : pc[w] = "idle"

\* one worker: the calls run one after the other, the generic route and the
\* clock act between two calls
NextAuth ==
    \/ \E w \in SeqWorkers :
          \/ CreateUserStep(w, SeqData)
          \/ AuthenticateUserStep(w)
          \/ LoginStep(w)
          \/ Return(w)
    \/ Quiet /\ \E id \in 1..MaxUsers, s \in Statuses : GenericUpdate(id, [status |-> s])
    \/ Quiet /\ Tick

SpecAuth == Init /\ [][NextAuth]_vars

\* one worker that creates identities, changes passwords and authenticates
NextPassword ==
    \/ \E w \in SeqWorkers :
          \/ CreateUserStep(w, SeqData)
          \/ ChangePasswordStep(w)
          \/ AuthenticateUserStep(w)
          \/ Return(w)
    \/ Quiet /\ \E id \in 1..MaxUsers, s \in Statuses : GenericUpdate(id, [status |-> s])

SpecPassword == Init /\ [][NextPassword]_vars

\* one worker that creates and updates
NextUpdate ==
    \/ \E w \in SeqWorkers :
          \/ CreateUserStep(w, SeqData)
          \/ UpdateUserInfoStep(w, UpdateData)
          \/ Return(w)
    \/ Quiet /\ Tick

SpecUpdate == Init /\ [][NextUpdate]_vars

\* patches of the phone: the phone of the first identity, of the second, one
\* off the format, and one followed by a newline
PatchData ==
    {[phone |-> PhoneA], [phone |-> PhoneB], [phone |-> BadPhone],
     [phone |-> PhoneNL], [nickname |-> Nick]}

\* one worker that creates identities and patches their phones
NextPatch ==
    \E w \in SeqWorkers :
        \/ CreateUserStep(w, SeqData)
        \/ UpdateUserInfoStep(w, PatchData)
        \/ Return(w)

SpecPatch == Init /\ [][NextPatch]_vars

\* logins of the two identities of SeqData with their password
TokenLoginStep(w) ==
    \/ \E u \in {Alice, PhoneA} : ViewsetLogin(w, u, Pw1)
    \/ \E u \in {Alice, PhoneA} : TokenObtain(w, u, Pw1)

\* one client that logs in, keeps its tokens and has them verified while time
\* passes and identities are destroyed
NextToken ==
    \/ \E w \in SeqWorkers :
          \/ CreateUserStep(w, SeqData)
          \/ TokenLoginStep(w)
          \/ \E raw \in TokenChoices(w) : VerifyToken(w, raw)
          \/ Keep(w)
          \/ Return(w)
    \/ Quiet /\ \E t \in AccessInstants : Elapse(t)
    \/ Quiet /\ \E id \in 1..MaxUsers : GenericDestroy(id)

SpecToken == Init /\ [][NextToken]_vars

\* the two refresh routes
RefreshStep(w) ==
    \/ \E raw \in TokenChoices(w) : RefreshTokenAction(w, raw)
    \/ \E raw \in TokenChoices(w) : TokenRefresh(w, raw)

\* one client that logs in, keeps its tokens and refreshes them while time
\* passes
NextRefresh ==
    \/ \E w \in SeqWorkers :
          \/ CreateUserStep(w, SeqData)
          \/ TokenLoginStep(w)
          \/ RefreshStep(w)
          \/ Keep(w)
          \/ Return(w)
    \/ Quiet /\ \E t \in RefreshInstants : Elapse(t)

SpecRefresh == Init /\ [][NextRefresh]_vars

\* the data of register requests: two that are valid alone and share the
\* phone, one with the username of the first, one with passwords that differ,
\* one with a phone off the format, one with a newline after the phone, one
\* with a short password, one without password_confirm
RegisterData ==
    {[username |-> Alice, password |-> Pw1, password_confirm |-> Pw1, phone |-> PhoneA],
     [username |-> Bob, password |-> Pw1, password_confirm |-> Pw1, phone |-> PhoneA],
     [username |-> Alice, password |-> Pw1, password_confirm |-> Pw1, phone |-> PhoneB],
     [username |-> Bob, password |-> Pw1, password_confirm |-> Pw2, phone |-> PhoneB],
     [username |-> Bob, password |-> Pw1, password_confirm |-> Pw1, phone |-> BadPhone],
     [username |-> Bob, password |-> Pw1, password_confirm |-> Pw1, phone |-> PhoneNL],
     [username |-> Bob, password |-> PwShort, password_confirm |-> PwShort, phone |-> PhoneB],
     [username |-> Bob, password |-> Pw1, phone |-> PhoneB]}

\* a register request: the view, then the steps of create_user (the INSERT of
\* the profile does not fail)
RegisterStep(w) ==
    \/ \E d \in RegisterData : RegisterCall(w, d)
    \/ CreateUserCheckUsername(w)
    \/ CreateUserCheckPhone(w)
    \/ CreateUserInsert(w, FALSE)

\* register requests of two workers, interleaved
NextRegister ==
    \E w \in Workers : RegisterStep(w) \/ Return(w)

SpecRegister == Init /\ [][NextRegister]_vars

\* patches of the update_info endpoint
UpdateInfoData ==
    {[nickname |-> Nick], [email |-> Mail], [phone |-> PhoneB], [phone |-> BadPhone]}

\* one client that registers, logs in, keeps its tokens, has them verified and
\* refreshed, and reads and patches identities
NextApi ==
    \E w \in SeqWorkers :
        \/ RegisterStep(w)
        \/ \E u \in {Alice, Bob}, p \in {Pw1, Pw2} : ViewsetLogin(w, u, p)
        \/ \E u \in {Alice, Bob}, p \in {Pw1, Pw2} : TokenObtain(w, u, p)
        \/ \E id \in 1..MaxUsers, d \in UpdateInfoData : UpdateInfo(w, id, d)
        \/ \E id \in 1..MaxUsers : Retrieve(w, id)
        \/ \E raw \in TokenChoices(w) : VerifyToken(w, raw)
        \/ RefreshStep(w)
        \/ Keep(w)
        \/ Return(w)

SpecApi == Init /\ [][NextApi]_vars

----------------------------------------------------------------------------
(* The validators, applied to inputs drawn by the initial state *)

\* the state before a call of a pure function by the worker of SeqWorkers
PureInit(calls) ==
    /\ users = << >>
    /\ profiles = << >>
    /\ nextId = 1
    /\ now = 0
    /\ local = [w \in Workers |-> NoLocal]
    /\ result = [w \in Workers |-> NoResult]
    /\ changed = [i \in 1..MaxUsers |-> NoChange]
    /\ held = [w \in Workers |-> NoTokens]
    /\ cache = << >>
    /\ pc = [w \in Workers |-> IF w \in SeqWorkers THEN "call" ELSE "idle"]
    /\ \E c \in calls : args = [w \in Workers |-> IF w \in SeqWorkers THEN c ELSE Idle]

\* phones: an optional leading blank, 1, a second character, a tail of nine
\* digits (or eight, or ten, or nine with a letter), an optional trailer
PhoneTails ==
    {<<"8", "0", "0", "1", "3", "8", "0", "0", "0">>,
     <<"8", "0", "0", "1", "3", "8", "0", "0">>,
     <<"8", "0", "0", "1", "3", "8", "0", "0", "0", "0">>,
     <<"8", "0", "0", "1", "x", "8", "0", "0", "0">>}

PhoneInputs ==
    {Empty} \cup
    {pre \o <<"1", second>> \o tail \o post :
        pre \in {Empty, <<" ">>}, second \in {"2", "3", "9"}, tail \in PhoneTails,
        post \in {Empty, <<"\n">>, <<" ">>, <<"\n", "\n">>}}

\* the worker applies the validator its call names
ApplyPhoneValidator(w) ==
    /\ pc[w] = "call"
    /\ args[w].op \in {"validate_phone", "validate_phone_number"}
    /\ Finish(w, [kind |-> "bool",
                  value |-> IF args[w].op = "validate_phone"
                            THEN validate_phone(args[w].phone)
                            ELSE validate_phone_number(args[w].phone)])
    /\ UNCHANGED <<users, profiles, nextId, now, args, local, changed, held, cache>>

InitPhone ==
    PureInit({[op |-> f, phone |-> s] :
                 f \in {"validate_phone", "validate_phone_number"}, s \in PhoneInputs})

NextPhone == \E w \in SeqWorkers : ApplyPhoneValidator(w)

SpecPhone == InitPhone /\ [][NextPhone]_vars

\* utils.PASSWORD_MIN_LENGTH and PASSWORD_MAX_LENGTH
PASSWORD_MIN_LENGTH == 6

PASSWORD_MAX_LENGTH == 32

\* the character classes of validate_password_strength
Lowercase ==
    {"a", "b", "c", "d", "e", "f", "g", "h", "i", "j", "k", "l", "m",
     "n", "o", "p", "q", "r", "s", "t", "u", "v", "w", "x", "y", "z"}

Uppercase ==
    {"A", "B", "C", "D", "E", "F", "G", "H", "I", "J", "K", "L", "M",
     "N", "O", "P", "Q", "R", "S", "T", "U", "V", "W", "X", "Y", "Z"}

\* [!@#$%^&*(),.?":{}|<>]
SpecialChars ==
    {"!", "@", "#", "$", "%", "^", "&", "*", "(", ")", ",", ".", "?", "\"",
     ":", "{", "}", "|", "<", ">"}

\* re.search of a class in the password
Search(class, password) == \E i \in 1..Len(password) : password[i] \in class

\* the classes in the order the function looks for them
StrengthClasses == <<Lowercase, Uppercase, Digits, SpecialChars>>

StrengthSuggestions == <<"add_lowercase", "add_uppercase", "add_digit", "add_special">>

\* the suggestions for the classes from k on that the password lacks
RECURSIVE SuggestionsFrom(_, _)
SuggestionsFrom(password, k) ==
    IF k > Len(StrengthClasses) THEN << >>
    ELSE (IF Search(StrengthClasses[k], password)
          THEN << >> ELSE <<StrengthSuggestions[k]>>)
         \o SuggestionsFrom(password, k + 1)

\* mutant: a score of 2 is enough
PasswordValid_Two(score) == score >= 2

\* result["is_valid"] = score >= 3
PasswordValid(score) == score >= 3

Min(a, b) == IF a <= b THEN a ELSE b

\* utils.validate_password_strength
validate_password_strength(password) ==
    IF password = Empty
    THEN [is_valid |-> FALSE, score |-> 0, message |-> "empty", suggestions |-> << >>]
    ELSE IF Len(password) < PASSWORD_MIN_LENGTH
    THEN [is_valid |-> FALSE, score |-> 0, message |-> "too_short",
          suggestions |-> <<"min_length">>]
    ELSE IF Len(password) > PASSWORD_MAX_LENGTH
    THEN [is_valid |-> FALSE, score |-> 0, message |-> "too_long",
          suggestions |-> <<"max_length">>]
    ELSE LET score == 1 + Cardinality({k \in 1..Len(StrengthClasses) :
                                          Search(StrengthClasses[k], password)})
         IN  [is_valid |-> PasswordValid(score), score |-> Min(score, 5),
              message |-> IF PasswordValid(score) THEN "good" ELSE "weak",
              suggestions |-> SuggestionsFrom(password, 1)]

\* passwords: the empty one, one of 5 characters, and every string of four
\* characters over one character of each class and one of no class, after 2,
\* 28 and 29 characters of no class (6, 32 and 33 characters)
PasswordAlphabet == {"a", "A", "1", "!", "_"}

PasswordInputs ==
    {Empty, <<"a", "B", "1", "!", "_">>}
    \cup {<<"_", "_">> \o s : s \in [1..4 -> PasswordAlphabet]}
    \cup {[i \in 1..28 |-> "_"] \o s : s \in [1..4 -> PasswordAlphabet]}
    \cup {[i \in 1..29 |-> "_"] \o s : s \in [1..4 -> PasswordAlphabet]}

ApplyPasswordStrength(w) ==
    /\ pc[w] = "call"
    /\ args[w].op = "validate_password_strength"
    /\ Finish(w, [kind |-> "dict"] @@ validate_password_strength(args[w].password))
    /\ UNCHANGED <<users, profiles, nextId, now, args, local, changed, held, cache>>

InitStrength ==
    PureInit({[op |-> "validate_password_strength", password |-> s] :
                 s \in PasswordInputs})

NextStrength == \E w \in SeqWorkers : ApplyPasswordStrength(w)

SpecStrength == InitStrength /\ [][NextStrength]_vars

\* one client that logs in, keeps its tokens and logs out while time passes
\* and identities are destroyed
NextLogout ==
    \/ \E w \in SeqWorkers :
          \/ CreateUserStep(w, SeqData)
          \/ TokenLoginStep(w)
          \/ \E raw \in TokenChoices(w) : Logout(w, raw)
          \/ \E raw \in TokenChoices(w) : VerifyToken(w, raw)
          \/ Keep(w)
          \/ Return(w)
    \/ Quiet /\ \E t \in AccessInstants : Elapse(t)
    \/ Quiet /\ \E id \in 1..MaxUsers : GenericDestroy(id)

SpecLogout == Init /\ [][NextLogout]_vars

\* create_user calls without a nickname, with one and with an empty one
NicknameData ==
    OptionalData \cup {[username |-> Alice, password |-> Pw1, phone |-> PhoneA]}

\* workers that create users with and without the optional keys
NextNickname ==
    \E w \in Workers : CreateUserStep(w, NicknameData) \/ Return(w)

SpecNickname == Init /\ [][NextNickname]_vars

\* one change of password, from Pw1 to Pw2
ChangePasswordOnceStep(w) ==
    \/ \E id \in 1..MaxUsers : ChangePasswordCall(w, id, Pw1, Pw2)
    \/ ChangePasswordSave(w)

\* patches of fields that no other call of the specification writes
ProfileData == {[nickname |-> Nick], [email |-> Mail], [phone |-> PhoneB]}

\* two workers: update_user_info and change_password interleave between the
\* read of the row and its save()
NextStale ==
    \E w \in Workers :
        \/ CreateUserStep(w, {[username |-> Alice, password |-> Pw1, phone |-> PhoneA]})
        \/ UpdateUserInfoStep(w, ProfileData)
        \/ ChangePasswordOnceStep(w)
        \/ Return(w)

SpecStale == Init /\ [][NextStale]_vars

\* the two identities of the phone race
PhoneRaceUsers ==
    {[username |-> Alice, password |-> Pw1, phone |-> PhoneA],
     [username |-> Bob, password |-> Pw1, phone |-> PhoneB]}

\* two workers: update_user_info calls that set a phone no identity was created
\* with, their collision checks and saves interleaved
NextPhoneRace ==
    \E w \in Workers :
        \/ CreateUserStep(w, PhoneRaceUsers)
        \/ UpdateUserInfoStep(w, {[phone |-> PhoneC]})
        \/ Return(w)

SpecPhoneRace == Init /\ [][NextPhoneRace]_vars

\* no identity has had its password changed or its status set to non-active
Untouched ==
    \A i \in Ids : users[i].status = "active" /\ changed[i] = NoChange

\* one client that logs in while the identities are untouched and keeps its
\* tokens; then passwords change and statuses are set, and the client has its
\* tokens verified and refreshed
NextRevoke ==
    \/ \E w \in SeqWorkers :
          \/ CreateUserStep(w, SeqData)
          \/ Untouched /\ TokenLoginStep(w)
          \/ ChangePasswordOnceStep(w)
          \/ \E raw \in TokenChoices(w) : VerifyToken(w, raw)
          \/ RefreshStep(w)
          \/ Keep(w)
          \/ Return(w)
    \/ Quiet /\ \E id \in 1..MaxUsers, s \in Statuses : GenericUpdate(id, [status |-> s])

SpecRevoke == Init /\ [][NextRevoke]_vars

----------------------------------------------------------------------------
(* The verification-code cache (django.core.cache behind utils.py), with the *)
(* clock in seconds                                                          *)

CACHE_TIMEOUT == 300

\* the prefix of the keys of verification codes
VerifyCodePrefix == <<"v", "e", "r", "i", "f", "y", "_", "c", "o", "d", "e", ":">>

\* mutant: every verification code is cached under the prefix alone
CacheKey_PrefixOnly(key) == VerifyCodePrefix

\* f"verify_code:{key}"
CacheKey(key) == VerifyCodePrefix \o key

\* cache.get: the value of the entry, None when there is none or it has expired
CacheGet(k) ==
    IF k \in DOMAIN cache /\ now < cache[k].expires THEN cache[k].value ELSE None

\* the function get_cached_verification_code
get_cached_verification_code(key) == CacheGet(CacheKey(key))

Code1 == <<"1", "2", "3", "4", "5", "6">>

Code2 == <<"6", "5", "4", "3", "2", "1">>

\* keys: two phones and one that begins with the prefix itself
CacheKeys == {PhoneA, PhoneB, VerifyCodePrefix \o PhoneA}

\* timeouts: the default, a shorter one, none at all
CacheTimeouts == {CACHE_TIMEOUT, 1, 0}

\* cache.set(f"verify_code:{key}", code, timeout=timeout)
CacheVerificationCode(w, key, code, timeout) ==
    /\ pc[w] = "idle"
    /\ args' = [args EXCEPT ![w] = [op |-> "cache_verification_code", key |-> key,
                                    code |-> code, timeout |-> timeout]]
    /\ cache' = (CacheKey(key) :> [value |-> code, expires |-> now + timeout]) @@ cache
    /\ Finish(w, [kind |-> "True"])
    /\ UNCHANGED <<users, profiles, nextId, now, local, changed, held>>

\* return cache.get(f"verify_code:{key}")
GetCachedVerificationCode(w, key) ==
    /\ pc[w] = "idle"
    /\ args' = [args EXCEPT ![w] = [op |-> "get_cached_verification_code", key |-> key]]
    /\ Finish(w, [kind |-> "Value", value |-> get_cached_verification_code(key)])
    /\ UNCHANGED <<users, profiles, nextId, now, local, changed, held, cache>>

\* cache.delete(f"verify_code:{key}")
ClearVerificationCode(w, key) ==
    /\ pc[w] = "idle"
    /\ args' = [args EXCEPT ![w] = [op |-> "clear_verification_code", key |-> key]]
    /\ cache' = Remove(cache, CacheKey(key))
    /\ Finish(w, [kind |-> "True"])
    /\ UNCHANGED <<users, profiles, nextId, now, local, changed, held>>

\* the instants the clock moves to: around the expiry of a code cached at 0
\* with each timeout, and of one cached later
CacheInstants ==
    {1, 2, CACHE_TIMEOUT - 1, CACHE_TIMEOUT, CACHE_TIMEOUT + 1, 2 * CACHE_TIMEOUT}

\* one worker that caches, reads and clears codes while time passes
NextCache ==
    \/ \E w \in SeqWorkers :
          \/ \E key \in CacheKeys, code \in {Code1, Code2}, timeout \in CacheTimeouts :
                CacheVerificationCode(w, key, code, timeout)
          \/ \E key \in CacheKeys : GetCachedVerificationCode(w, key)
          \/ \E key \in CacheKeys : ClearVerificationCode(w, key)
          \/ Return(w)
    \/ Quiet /\ \E t \in CacheInstants : Elapse(t)

SpecCache == Init /\ [][NextCache]_vars

----------------------------------------------------------------------------
(* Claims *)

Done(w, op) == pc[w] = "done" /\ args[w].op = op

\* C1: in every reachable state no two stored identities share a username
\* and no two share a phone, however the create_user and update_user_info
\* calls (and the generic routes) interleave.
C1_UniqueUsernameAndPhone ==
    \A i, j \in Ids :
        i # j => /\ users[i].username # users[j].username
                 /\ users[i].phone # users[j].phone

\* two identities are stored and the database has just refused the save of an
\* update_user_info that passed its own collision check
C1_Witness ==
    /\ Cardinality(Ids) = 2
    /\ \E w \in Workers :
          /\ Done(w, "update_user_info")
          /\ result[w] = Raised("IntegrityError", "users.phone")

\* the create_user call of w went as far as its INSERT
ReachedInsert(w) ==
    /\ Done(w, "create_user")
    /\ \/ result[w].kind = "User"
       \/ /\ result[w].kind = "ValidationError"
          /\ result[w].msg[1] = "create_failed"

\* w's create_user call failed on a unique constraint of the users table
FailedAsDuplicate(w) ==
    /\ result[w].kind = "ValidationError"
    /\ Len(result[w].msg) = 3
    /\ result[w].msg[2] = "IntegrityError"

\* w's create_user call failed because the INSERT of the profile failed
ProfileFailed(w) ==
    result[w] = ValidationError(<<"create_failed", "DatabaseError", "user_profiles">>)

\* C2: of two create_user calls with the same phone and different usernames
\* that both passed the pre-checks, never both return an identity; a call that
\* fails raises ValidationError; and unless the INSERT of a profile failed,
\* exactly one returns an identity and the other reports the duplicate.
C2_ExactlyOneCreated ==
    \A a, b \in Workers :
        ( /\ a # b
          /\ ReachedInsert(a)
          /\ ReachedInsert(b)
          /\ args[a].user_data.phone = args[b].user_data.phone
          /\ args[a].user_data.username # args[b].user_data.username )
        => /\ ~(result[a].kind = "User" /\ result[b].kind = "User")
           /\ result[a].kind \in {"User", "ValidationError"}
           /\ (~ProfileFailed(a) /\ ~ProfileFailed(b) /\ result[a].kind # "User")
              => (FailedAsDuplicate(a) /\ result[b].kind = "User")

\* both calls passed the pre-checks for one phone; one created the identity,
\* the other was refused by the unique constraint on the phone
C2_Witness ==
    \E a, b \in Workers :
        /\ a # b
        /\ ReachedInsert(a)
        /\ ReachedInsert(b)
        /\ args[a].user_data.phone = args[b].user_data.phone
        /\ args[a].user_data.username # args[b].user_data.username
        /\ result[a].kind = "User"
        /\ result[b] = ValidationError(<<"create_failed", "IntegrityError", "users.phone">>)

\* C3: identities and profiles are in one-to-one correspondence in every
\* reachable state, whichever route created the identity.
C3_OneProfilePerIdentity == DOMAIN profiles = DOMAIN users

\* w took a step of a call of op, which it has not returned from
StepOf(w, op) == pc'[w] # pc[w] /\ pc'[w] # "idle" /\ args'[w].op = op

\* C4: a step of a create_user call whose username belongs to a stored identity
\* writes nothing, never returns an identity, and when it ends the call the
\* call raises ValidationError; the username check itself ends the call.
C4_DuplicateUsernameFails ==
    [][\A w \in Workers :
          ( /\ StepOf(w, "create_user")
            /\ "username" \in DOMAIN args'[w].user_data
            /\ \E i \in Ids : users[i].username = args'[w].user_data.username )
          => /\ users' = users
             /\ profiles' = profiles
             /\ nextId' = nextId
             /\ pc[w] = "cu_username" => pc'[w] = "done"
             /\ pc'[w] = "done" => result'[w].kind = "ValidationError"]_vars

\* a call was refused by the username check, and another by the unique
\* constraint on the username after it had passed the check
C4_Witness ==
    \E a, b \in Workers :
        /\ Done(a, "create_user")
        /\ result[a] = ValidationError(<<"username_exists">>)
        /\ ExistsUsername(args[a].user_data.username)
        /\ Done(b, "create_user")
        /\ result[b] = ValidationError(<<"create_failed", "IntegrityError", "users.username">>)

\* the mobile format: 1, then a digit in 3..9, then nine digits
MobileFormat(s) ==
    /\ Len(s) = 11
    /\ s[1] = "1"
    /\ s[2] \in {"3", "4", "5", "6", "7", "8", "9"}
    /\ \A i \in 3..11 : s[i] \in Digits

\* a required key of d is absent or empty, d's phone is not of the mobile
\* format, or a stored identity owns d's phone
C5_MustFail(d) ==
    \/ \E f \in {"username", "password", "phone"} : f \notin DOMAIN d \/ d[f] = << >>
    \/ ~MobileFormat(d.phone)
    \/ \E i \in Ids : users[i].phone = d.phone

\* C5: a step of a create_user call that must fail writes nothing and, when it
\* ends the call, the call raises ValidationError; the call returns an
\* identity only when none of the reasons to fail holds.
C5_CreateFailsOnBadInput ==
    [][\A w \in Workers :
          StepOf(w, "create_user") =>
             /\ C5_MustFail(args'[w].user_data) =>
                   /\ users' = users
                   /\ profiles' = profiles
                   /\ pc'[w] = "done" => result'[w].kind = "ValidationError"
             /\ (pc'[w] = "done" /\ result'[w].kind = "User") =>
                   ~C5_MustFail(args'[w].user_data)]_vars

\* calls have failed for a phone that passes the pattern but is no mobile
\* number, and for a phone owned by a stored identity
C5_Witness ==
    \E a, b \in Workers :
        /\ Done(a, "create_user")
        /\ result[a] = ValidationError(<<"create_failed", "DataError", "users.phone">>)
        /\ args[a].user_data.phone = PhoneNL
        /\ Done(b, "create_user")
        /\ result[b] = ValidationError(<<"phone_registered">>)
        /\ ExistsPhone(args[b].user_data.phone)

\* C6: authenticate_user with an identity's own username and its current
\* password returns that identity and sets its last_login to the time of the
\* call when its status is active, and returns no identity otherwise.
C6_OwnCredentialsAuthenticate ==
    \A w \in Workers :
        Done(w, "authenticate_user") =>
            \A i \in Ids :
                ( /\ users[i].username = args[w].username
                  /\ users[i].password = make_password(args[w].password) )
                => IF users[i].status = "active"
                   THEN result[w] = Returned(i) /\ users[i].last_login = now
                   ELSE result[w] = [kind |-> "None"]

\* C7: a login endpoint answers with a token pair only for an identity whose
\* password is the one supplied and whose status is active.
C7_TokensOnlyForActive ==
    \A w \in Workers :
        ( /\ pc[w] = "done"
          /\ args[w].op \in {"login", "token_obtain"}
          /\ result[w].kind = "Response"
          /\ result[w].status = 200 )
        => /\ users[result[w].user].password = make_password(args[w].password)
           /\ users[result[w].user].status = "active"

\* C8: change_password for an identity that does not exist, with an old
\* password that is not the stored one, or with a new password of fewer than 6
\* characters raises ValidationError and leaves every stored row as it was.
C8_ChangePasswordRejects ==
    [][\A w \in Workers :
          ( /\ StepOf(w, "change_password")
            /\ pc[w] = "idle"
            /\ \/ args'[w].user_id \notin Ids
               \/ users[args'[w].user_id].password # make_password(args'[w].old_password)
               \/ Len(args'[w].new_password) < 6 )
          => /\ pc'[w] = "done"
             /\ result'[w].kind = "ValidationError"
             /\ users' = users]_vars

\* a call with the right old password and a new one of five characters was
\* refused, and the stored hash is still that of the old password
C8_Witness ==
    \E w \in Workers :
        /\ Done(w, "change_password")
        /\ result[w] = ValidationError(<<"new_password_short">>)
        /\ Len(args[w].new_password) = 5
        /\ users[args[w].user_id].password = make_password(args[w].old_password)

\* C9: once change_password has succeeded for an identity, authenticate_user
\* with that identity's username succeeds with the new password and, the old
\* password being another one, fails with the old password, as long as the
\* identity is active and its password is not changed again.
C9_NewPasswordAuthenticates ==
    \A w \in Workers :
        Done(w, "authenticate_user") =>
            \A i \in Ids :
                ( /\ changed[i] # NoChange
                  /\ users[i].username = args[w].username
                  /\ users[i].status = "active" )
                => /\ args[w].password = changed[i].new => result[w] = Returned(i)
                   /\ ( /\ args[w].password = changed[i].old
                        /\ changed[i].old # changed[i].new )
                      => result[w] = [kind |-> "None"]

\* the fields of an identity that are outside the allow-list, update_time
\* (auto_now) aside
C10_OtherFields ==
    {"id", "username", "password", "status", "is_active", "last_login", "create_time"}

\* C10: the save of update_user_info leaves every field outside the allow-list
\* and every other identity as it was, and a patch with keys outside the
\* allow-list is saved without an error; the steps before the save write
\* nothing.
C10_OnlyAllowedFieldsChange ==
    [][\A w \in Workers :
          StepOf(w, "update_user_info") =>
             /\ DOMAIN users' = DOMAIN users
             /\ profiles' = profiles
             /\ \A i \in Ids \ {args'[w].user_id} : users'[i] = users[i]
             /\ pc[w] # "uu_save" => users' = users
             /\ pc[w] = "uu_save" =>
                   /\ result'[w] = Returned(args'[w].user_id)
                   /\ \A f \in C10_OtherFields :
                         users'[args'[w].user_id][f] = users[args'[w].user_id][f]
                   /\ \A f \in allowed_fields \ DOMAIN args'[w].update_data :
                         users'[args'[w].user_id][f] = users[args'[w].user_id][f]]_vars

\* a patch that names username, password, status, id and create_time has been
\* saved, and the identity still has the username it was created with
C10_Witness ==
    \E w \in Workers :
        /\ Done(w, "update_user_info")
        /\ result[w] = Returned(args[w].user_id)
        /\ {"username", "password", "status", "id", "create_time"}
              \subseteq DOMAIN args[w].update_data
        /\ users[args[w].user_id].username # args[w].update_data.username
        /\ users[args[w].user_id].status = "active"

\* the identity of the call does not exist, the patch's phone is not of the
\* mobile format, or another identity owns the patch's phone
C11_MustFail(user_id, d) ==
    \/ user_id \notin Ids
    \/ /\ "phone" \in DOMAIN d
       /\ \/ ~MobileFormat(d.phone)
          \/ \E i \in Ids \ {user_id} : users[i].phone = d.phone

\* C11: a step of an update_user_info call that must fail (no such identity,
\* a phone off the mobile format, a phone owned by another identity) writes
\* nothing and, when it ends the call, the call raises ValidationError; a
\* patch with the identity's own phone is saved.
C11_UpdateFailsOnBadInput ==
    [][\A w \in Workers :
          StepOf(w, "update_user_info") =>
             /\ C11_MustFail(args'[w].user_id, args'[w].update_data) =>
                   /\ users' = users
                   /\ pc'[w] = "done" => result'[w].kind = "ValidationError"
             /\ ( /\ pc'[w] = "done"
                  /\ args'[w].user_id \in Ids
                  /\ "phone" \in DOMAIN args'[w].update_data
                  /\ args'[w].update_data.phone = users[args'[w].user_id].phone )
                => result'[w] = Returned(args'[w].user_id)]_vars

\* w's request was served with an access token that a login issued
VerifiedIssued(w) ==
    /\ Done(w, "verify_token")
    /\ args[w].token.token_type = "access"
    /\ "forged" \notin DOMAIN args[w].token

IssuedAccess(w) ==
    /\ pc[w] = "done"
    /\ result[w].kind = "Response"
    /\ result[w].status = 200
    /\ "access" \in DOMAIN result[w].body

\* C13: every access token a route issues carries the id of its identity and
\* the claims username, nickname, phone and email.
C13_AccessTokensCarryClaims ==
    \A w \in Workers :
        IssuedAccess(w) =>
            LET claims == result[w].body.access.claims
            IN  /\ {"user_id", "username", "nickname", "phone", "email"}
                      \subseteq DOMAIN claims
                /\ claims.user_id = result[w].user

\* the register data d has passwords that differ, a phone off the mobile
\* format (surrounding whitespace aside, which the field trims), or the
\* username or phone of a stored identity
C18_MustReject(d) ==
    \/ d.password # d.password_confirm
    \/ ~MobileFormat(Trim(d.phone))
    \/ \E i \in Ids : users[i].username = d.username \/ users[i].phone = Trim(d.phone)

\* C18: the step that ends a register request answers 400 and writes nothing
\* when the data must be rejected; otherwise (the data being complete, with
\* passwords of 6 characters or more) it answers 201 and has stored exactly one
\* new identity, with the username of the request, and its profile.
C18_RegisterAnswers ==
    [][\A w \in Workers :
          ( /\ StepOf(w, "register")
            /\ pc'[w] = "done"
            /\ "password_confirm" \in DOMAIN args'[w].data
            /\ Len(args'[w].data.password) >= 6 )
          => IF C18_MustReject(args'[w].data)
             THEN /\ RegisterStatus(result'[w]) = 400
                  /\ users' = users
                  /\ profiles' = profiles
             ELSE /\ RegisterStatus(result'[w]) = 201
                  /\ DOMAIN users' = DOMAIN users \cup {result'[w].id}
                  /\ result'[w].id \notin DOMAIN users
                  /\ users'[result'[w].id].username = args'[w].data.username
                  /\ DOMAIN profiles' = DOMAIN profiles \cup {result'[w].id}]_vars

\* the records of a response that hold data of an identity: the body of a
\* retrieve, the user of a body, the claims of the tokens of a body
IdentityData(op, r) ==
    IF r.kind # "Response" THEN {}
    ELSE (IF op = "retrieve" /\ r.status = 200 THEN {r.body} ELSE {})
         \cup (IF "user" \in DOMAIN r.body THEN {r.body.user} ELSE {})
         \cup (IF "access" \in DOMAIN r.body THEN {r.body.access.claims} ELSE {})
         \cup (IF "refresh" \in DOMAIN r.body THEN {r.body.refresh.claims} ELSE {})

\* C14: no response of an endpoint carries the password column of an identity,
\* neither in its body, nor in the user data of its body, nor in the claims of
\* its tokens; get_full_info does not carry it either.
C14_PasswordNeverSerialized ==
    /\ \A w \in Workers :
          (pc[w] = "done" /\ ResponseOf(w).kind = "Response") =>
              /\ "password" \notin DOMAIN ResponseOf(w).body
              /\ \A rec \in IdentityData(args[w].op, ResponseOf(w)) :
                    "password" \notin DOMAIN rec
    /\ \A i \in Ids : "password" \notin DOMAIN get_full_info(users[i])

\* a login was answered with the data of an identity that has a password
C14_Witness ==
    \E w \in Workers :
        /\ Done(w, "login")
        /\ result[w].status = 200
        /\ result[w].body.user.id = result[w].user
        /\ users[result[w].user].password = make_password(args[w].password)

\* C15: each of the two phone validators returns true exactly for the strings
\* of the mobile format (11 characters: 1, a digit in 3..9, nine digits).
C15_ValidatorsMatchFormat ==
    \A w \in Workers :
        ( /\ pc[w] = "done"
          /\ args[w].op \in {"validate_phone", "validate_phone_number"} )
        => (result[w].value <=> MobileFormat(args[w].phone))

\* the number of classes (lowercase, uppercase, digit, special character) of
\* which the password has a character
C16_ClassesPresent(password) ==
    Cardinality({c \in {Lowercase, Uppercase, Digits, SpecialChars} :
                    \E i \in 1..Len(password) : password[i] \in c})

\* C16: validate_password_strength reports invalid for a password shorter
\* than 6 or longer than 32; for any other password the score is 1 plus the
\* number of classes present, is_valid holds iff the score is at least 3, and
\* there is one suggestion for each absent class.
C16_StrengthScore ==
    \A w \in Workers :
        Done(w, "validate_password_strength") =>
            LET password == args[w].password
            IN  IF Len(password) < 6 \/ Len(password) > 32
                THEN ~result[w].is_valid
                ELSE /\ result[w].score = 1 + C16_ClassesPresent(password)
                     /\ result[w].score \in 1..5
                     /\ result[w].is_valid <=> result[w].score >= 3
                     /\ Len(result[w].suggestions) = 4 - C16_ClassesPresent(password)

\* a password of 6 characters with two classes was scored 3 and found valid,
\* with two suggestions
C16_Witness ==
    \E w \in Workers :
        /\ Done(w, "validate_password_strength")
        /\ Len(args[w].password) = 6
        /\ C16_ClassesPresent(args[w].password) = 2
        /\ result[w].score = 3
        /\ result[w].is_valid
        /\ Len(result[w].suggestions) = 2

\* w's refresh request on either route carried a token
Refreshed(w) ==
    /\ pc[w] = "done"
    /\ args[w].op \in {"refresh_token", "token_refresh"}
    /\ args[w].token # NoToken

\* the token is a refresh token that was issued and has not expired
C17_ValidRefresh(token) ==
    /\ token.token_type = "refresh"
    /\ "forged" \notin DOMAIN token
    /\ now < token.exp

LoginRefused(w) ==
    /\ pc[w] = "done"
    /\ args[w].op \in {"login", "token_obtain"}
    /\ args[w].username # Empty
    /\ args[w].password # Empty
    /\ ~(result[w].kind = "Response" /\ result[w].status = 200)

\* C19: every authentication failure is surfaced with status 401: a login
\* request with a wrong password, with an unknown identifier or for a
\* disabled account is answered 401 on both login routes.
C19_LoginFailureIs401 ==
    \A w \in Workers :
        LoginRefused(w) => result[w].kind = "Response" /\ result[w].status = 401

\* w's client sends, on either refresh route, the refresh token it keeps and
\* has already had accepted by a refresh
ReplaysRefresh(w) ==
    /\ pc[w] = "idle"
    /\ pc'[w] = "done"
    /\ args'[w].op \in {"refresh_token", "token_refresh"}
    /\ args'[w].token = held[w].refresh
    /\ held[w].used

\* C20: once a refresh token has been used in a refresh operation, that same
\* refresh token is rejected by every later refresh operation, on both
\* refresh routes.
C20_UsedRefreshRejected ==
    [][\A w \in Workers : ReplaysRefresh(w) => result'[w].status = 401]_vars

\* w's logout request is answered in this step
LogsOut(w) == pc[w] = "idle" /\ pc'[w] = "done" /\ args'[w].op = "logout"

\* a token that is accepted over the store us at time t: an access token by
\* the authentication of a request, a refresh token by a refresh
C21_Accepted(token, us, t) ==
    /\ token.token_type \in {"access", "refresh"}
    /\ "forged" \notin DOMAIN token
    /\ t < token.exp
    /\ token.token_type = "access" =>
          /\ token.claims.user_id \in DOMAIN us
          /\ us[token.claims.user_id].is_active

\* the tokens the clients keep
C21_HeldTokens == UNION {{held[w].access, held[w].refresh} : w \in Workers}

\* logout changes no state: the identity store is unchanged and the tokens
\* that were accepted before it are accepted after it
C21_NoEffect ==
    /\ users' = users
    /\ profiles' = profiles
    /\ \A token \in C21_HeldTokens :
          C21_Accepted(token, users, now) => C21_Accepted(token, users', now')

\* C21 as stated: the logout operation always returns 200 and changes no
\* state.
C21_LogoutAlways200 ==
    [][\A w \in Workers :
          LogsOut(w) => result'[w].status = 200 /\ C21_NoEffect]_vars

\* the Authorization header of the logout request carries a token that is not
\* an accepted access token
C21_HeaderRefused(w) ==
    /\ args'[w].token # NoToken
    /\ ~(args'[w].token.token_type = "access"
         /\ C21_Accepted(args'[w].token, users, now))

\* C21, amended: the logout operation returns 200, or 401 when the
\* Authorization header of the request carries a token that is not an
\* accepted access token, and in both cases changes no state: the identity
\* store is unchanged and every token that was valid before the logout remains
\* valid after it.
C21_LogoutNoEffect ==
    [][\A w \in Workers :
          LogsOut(w) =>
              /\ result'[w].status = IF C21_HeaderRefused(w) THEN 401 ELSE 200
              /\ C21_NoEffect]_vars

\* a logout with the client's valid access token was answered 200 and the
\* token is still accepted
C21_Witness ==
    \E w \in Workers :
        /\ Done(w, "logout")
        /\ result[w].status = 200
        /\ args[w].token = held[w].access
        /\ C21_Accepted(held[w].access, users, now)
        /\ C21_Accepted(held[w].refresh, users, now)

\* C22: every identity created by create_user without a nickname (key absent,
\* or present but empty) is stored with nickname equal to its username; a
\* non-empty nickname is stored as given.
C22_NicknameDefaultsToUsername ==
    \A w \in Workers :
        (Done(w, "create_user") /\ result[w].kind = "User") =>
            LET d == args[w].user_data
            IN  users[result[w].id].nickname =
                    IF "nickname" \notin DOMAIN d \/ d.nickname = Empty
                    THEN d.username
                    ELSE d.nickname

\* a call of UserService that mutates identities finishes in this step
C23_Mutates(w) ==
    /\ pc[w] # "done"
    /\ pc'[w] = "done"
    /\ args'[w].op \in {"update_user_info", "change_password", "authenticate_user"}

\* C23: every operation that mutates a stored identity (update_user_info,
\* change_password and the last_login write of a successful authenticate_user)
\* refreshes the update_time of that identity, and no operation changes the
\* create_time or the id of an identity.
C23_UpdateTimeRefreshed ==
    [][\A i \in DOMAIN users \cap DOMAIN users' :
          /\ users'[i].create_time = users[i].create_time
          /\ users'[i].id = users[i].id
          /\ (users'[i] # users[i] /\ \E w \in Workers : C23_Mutates(w)) =>
                users'[i].update_time = now']_vars

\* the identities UserService.authenticate_user returns for these credentials
\* over the store as it is
C24_AuthenticateUserReturns(username, password) ==
    {i \in Authenticate(ResolveUsername(username), password) :
        is_user_active(users[i])}

\* C24: the credential login endpoint accepts a login and selects identity u
\* exactly when authenticate_user(identifier, password) returns u.
C24_LoginIsAuthenticateUser ==
    \A w \in Workers :
        Done(w, "login") =>
            LET sel == C24_AuthenticateUserReturns(args[w].username, args[w].password)
            IN  IF sel = {}
                THEN ~(result[w].kind = "Response" /\ result[w].status = 200)
                ELSE /\ result[w].kind = "Response"
                     /\ result[w].status = 200
                     /\ result[w].user \in sel

\* both calls on the identity have completed with success: change_password of
\* worker c and update_user_info of worker u
C25_BothCompleted(c, u) ==
    /\ Done(c, "change_password")
    /\ result[c].kind = "True"
    /\ Done(u, "update_user_info")
    /\ result[u].kind = "User"
    /\ args[u].user_id = args[c].user_id

\* C25: a successful change_password is never undone by a concurrent
\* update_user_info on the same identity: once both have completed, the stored
\* password hash is the new one and the allow-listed fields of the patch hold
\* the patched values.
C25_NoLostUpdate ==
    \A c, u \in Workers :
        C25_BothCompleted(c, u) =>
            LET user == users[args[c].user_id]
                patch == args[u].update_data
            IN  /\ check_password(args[c].new_password, user.password)
                /\ \A f \in DOMAIN patch \cap allowed_fields : user[f] = patch[f]

\* C26: when two update_user_info calls on two different identities set the
\* same new phone, at most one of them commits the phone, and the losing call
\* fails with a ValidationError rather than any other exception.
C26_PhoneRaceLoserGetsValidationError ==
    /\ Cardinality({i \in Ids : users[i].phone = PhoneC}) <= 1
    /\ \A w \in Workers :
          Done(w, "update_user_info") =>
              result[w].kind \in {"User", "ValidationError"}

\* C27: in every reachable store state, every identity with status active
\* can authenticate through authenticate_user with its own username and its
\* current password, whatever the usernames and phones of the other
\* identities are.
C27_ActiveIdentityCanAuthenticate ==
    \A w \in Workers :
        Done(w, "authenticate_user") =>
            \A i \in Ids :
                ( /\ users[i].status = "active"
                  /\ args[w].username = users[i].username
                  /\ check_password(args[w].password, users[i].password) )
                => result[w].kind = "User" /\ result[w].id = i

\* no identity is entitled to authenticate with these credentials: none that
\* the identifier names, by username or by phone, has this password and
\* status active
C28_MustFail(username, password) ==
    ~\E i \in Ids :
        /\ users[i].username = username \/ users[i].phone = username
        /\ check_password(password, users[i].password)
        /\ users[i].status = "active"

\* C28: a failed authenticate_user (wrong password, unknown identifier or
\* non-active status) changes nothing: last_login and every other field of
\* every identity are the same before and after each step of the call.
C28_FailedAuthenticateChangesNothing ==
    [][\A w \in Workers :
          ( /\ StepOf(w, "authenticate_user")
            /\ C28_MustFail(args'[w].username, args'[w].password) )
          => users' = users /\ profiles' = profiles]_vars

\* authenticate_user has returned None for the own username and password of
\* an identity that is not active
C28_Witness ==
    \E w \in Workers :
        /\ Done(w, "authenticate_user")
        /\ result[w] = [kind |-> "None"]
        /\ C28_MustFail(args[w].username, args[w].password)
        /\ \E i \in Ids :
              /\ users[i].username = args[w].username
              /\ check_password(args[w].password, users[i].password)
              /\ users[i].status # "active"

\* w's client presents a token it keeps, issued to an identity whose password
\* has changed since or whose status is no longer active: the access token for
\* verification, or the refresh token on a refresh route
C29_PresentsOldToken(w) ==
    /\ pc[w] = "idle"
    /\ pc'[w] = "done"
    /\ \/ args'[w].op = "verify_token" /\ args'[w].token = held[w].access
       \/ /\ args'[w].op \in {"refresh_token", "token_refresh"}
          /\ args'[w].token = held[w].refresh
    /\ args'[w].token # NoToken
    /\ args'[w].token.claims.user_id \in Ids
    /\ LET id == args'[w].token.claims.user_id
       IN  changed[id] # NoChange \/ users[id].status # "active"

\* C29: tokens issued to an identity before a successful change_password or
\* before its status is set to inactive or deleted are no longer accepted
\* afterwards, neither the access token by verification nor the refresh token
\* by a refresh.
C29_OldTokensRejected ==
    [][\A w \in Workers :
          C29_PresentsOldToken(w) => result'[w].status # 200]_vars

\* w's call of the cache function op is made in this step
C30_Calls(w, op) == pc[w] = "idle" /\ pc'[w] = "done" /\ args'[w].op = op

\* what a read of key k returns after this step, given what it returned
\* before: the code of a cache_verification_code(k, ...) of this step (None
\* with a timeout of 0), None after a clear_verification_code(k), and
\* otherwise the same as before until the timeout of k has elapsed, None then
C30_ReadAfter(k) ==
    IF \E w \in Workers : C30_Calls(w, "cache_verification_code") /\ args'[w].key = k
    THEN LET w == CHOOSE v \in Workers :
                      C30_Calls(v, "cache_verification_code") /\ args'[v].key = k
         IN  IF args'[w].timeout > 0 THEN args'[w].code ELSE None
    ELSE IF \E w \in Workers : C30_Calls(w, "clear_verification_code") /\ args'[w].key = k
    THEN None
    ELSE IF get_cached_verification_code(k) # None
            /\ now' >= cache[CacheKey(k)].expires
    THEN None
    ELSE get_cached_verification_code(k)

\* C30: the verification-code cache is a per-key store with expiry: after
\* cache_verification_code(k, c), get_cached_verification_code(k) returns c
\* until the timeout elapses, clear_verification_code(k) is called or k is
\* cached again; after a clear or the expiry it returns None; operations on
\* one key never change the value read for another key.
C30_PerKeyStoreWithExpiry ==
    [][/\ \A k \in CacheKeys :
             get_cached_verification_code(k)' = C30_ReadAfter(k)
       /\ \A w \in Workers :
             C30_Calls(w, "get_cached_verification_code") =>
                 result'[w].value = get_cached_verification_code(args'[w].key)]_vars

\* a read returned the code of its key after the code of another key had
\* expired and time had passed
C30_Witness ==
    \E w \in Workers :
        /\ Done(w, "get_cached_verification_code")
        /\ result[w].value = Code1
        /\ now > 1
        /\ \E k \in CacheKeys :
              /\ k # args[w].key
              /\ CacheKey(k) \in DOMAIN cache
              /\ cache[CacheKey(k)].expires <= now
              /\ get_cached_verification_code(k) = None

====
